---- MODULE Spec2Model ----
(***************************************************************************)
(* A model of the Feishu bridge of clawdbot-feishu:                        *)
(*   - src/src/monitor.ts: the realtime session supervisor (connection     *)
(*     lifecycle, session generation, dedup cache, event router);          *)
(*   - src/src/reply-dispatcher.ts: the per-reply streaming card state     *)
(*     machine (patch pipeline, debounce timer, finalize, standalone       *)
(*     fallback).                                                          *)
(* The two subsystems share no state; each has a specification of its own  *)
(* (SpecMonitor, SpecReply) over the module's variables.                   *)
(***************************************************************************)
EXTENDS Integers, Sequences, FiniteSets, TLC

(***************************************************************************)
(* Bounds of the model (not program constants).                            *)
(***************************************************************************)
\* the session generation is capped: startConnection and stopConnection
\* are disabled once activeSessionId reaches the cap (MaxSession under
\* SpecMonitor, MaxDedupSession under SpecDedup)
MaxSession == 3
MaxDedupSession == 2
\* handleFeishuMessage calls in flight at once
MaxInflight == 1
\* number of clock steps of the monitor's clock
MaxTicks == 2
\* tracked message identifiers are 1..MaxMsg
MaxMsg == 2

\* agent callbacks (reasoning, tool, text, idle signals) one reply receives
MaxEvents == 3
\* number of clock steps of the reply's clock
MaxReplyTicks == 2

(***************************************************************************)
(* Program constants of monitor.ts.                                        *)
(***************************************************************************)
DEDUP_TTL_MS == 3600000
PRUNE_THRESHOLD == 200

\* the monitor's clock advances in steps of one TTL, so that an entry's age
\* takes the values 0, exactly the TTL (not yet expired) and above the TTL
TickMs == DEDUP_TTL_MS

\* currentWsClient = null
NULL == 0
\* an event whose message carries no message_id
NoId == 0
TrackedIds == 1..MaxMsg
\* the message ids events are delivered with
EventIds == TrackedIds \cup {NoId}
\* lastFwd of an id that was never forwarded
Never == 0 - 1
\* lastEvent before any event was handled
NoEvent == [kind |-> "none"]
\* identifiers of earlier traffic that fill the cache up to the threshold
FillerIds == {MaxMsg + k : k \in 1..PRUNE_THRESHOLD}

(***************************************************************************)
(* Program constants of reply-dispatcher.ts.                               *)
(***************************************************************************)
DEFAULT_PATCH_INTERVAL_MS == 500
DEFAULT_THINKING_UPDATE_INTERVAL_MS == 800
\* feishuCfg.streaming.patchIntervalMs ?? DEFAULT_PATCH_INTERVAL_MS, and
\* feishuCfg.streaming.cursor !== false, of the default configuration
patchIntervalMs == DEFAULT_PATCH_INTERVAL_MS
showCursor == TRUE

\* the reply's clock advances in steps of one patch interval, so that the
\* time since the last patch is 0, the patch interval (below the thinking
\* interval) or above the thinking interval
ReplyTickMs == DEFAULT_PATCH_INTERVAL_MS
\* Date.now() when the reply starts: far above lastPatchTime = 0
ReplyStart == 2 * DEFAULT_THINKING_UPDATE_INTERVAL_MS
\* pendingPatchTimer = null
NoTimer == 0 - 1

\* texts are sequences of characters
NL == "\n"
TextX == <<"X">>
TextY == <<"Y">>
TextTable == <<"|", "a", "|", NL, "|", "-", "|">>
TextBlank == <<" ">>
\* the payload texts the agent delivers, and the kinds it delivers them with
Fragments == {TextX, TextY, TextTable, TextBlank}
\* payload texts that start or end with a line break
TextLead == <<NL, "Y">>
TextTrail == <<"Z", NL>>
JoinFragments == {TextX, TextLead, TextTrail, TextBlank}
Kinds == {"block", "final"}
\* the reasoning snapshots and the tool calls of the agent
ReasoningTexts == {<<"A">>}
ToolIds == {"t1"}
ToolNames == {"exec"}
\* thinkingText undefined or empty (the code tests only its truth value)
NoThinking == <<>>
\* evt.data.toolCallId absent, not a string, or empty
NoToolCallId == ""
\* the maxLen both callers of buildThinkingSection pass, and the number of
\* completed tools it lists
ThinkingMaxLen == 3000
MaxCompletedShown == 10
\* the marker put before a cut reasoning snapshot: the three characters of
\* the string literal of the source, written as their code points
Ellipsis == <<"U+201A", "U+00C4", "U+00B6">>

\* the defaultLimit createFeishuReplyDispatcher passes to resolveTextChunkLimit
DefaultTextChunkLimit == 4000
\* no text chunk limit is configured for the channel
NoLimit == 0
\* the text chunk limit of the configuration the dispatcher is created
\* with: small, so that the texts of the model are split into chunks
ConfiguredTextChunkLimit == 4
\* core.channel.text.resolveTextChunkLimit (plugin SDK): the configured
\* limit of the channel, or the default it is given when none is configured
resolveTextChunkLimit(configured, defaultLimit) ==
  IF configured = NoLimit THEN defaultLimit ELSE configured
\* textChunkLimit of the closure
textChunkLimit == resolveTextChunkLimit(ConfiguredTextChunkLimit, DefaultTextChunkLimit)

VARIABLES
  \* ---- reply-dispatcher.ts: the closure of one createFeishuReplyDispatcher ----
  cardMessageId,        \* NULL or the message id of the streamed card
  accumulatedText,
  lastPatchTime,
  pendingPatchTimer,    \* NoTimer or the time the timer is due
  streamingFailed,
  cardCreationPromise,  \* TRUE while the promise of a creation is stored
  thinkingText,
  activeTools,          \* the entries [id, name] of the Map, in insertion order
  completedTools,       \* sequence of [name, failed]
  thinkingStopped,
  hasThinkingContent,
  standaloneDelivered,
  waiters,              \* patchCard calls suspended at "await cardCreationPromise"
  net,                  \* the network calls in flight, in the order they were issued
  chat,                 \* the messages of the chat, by message id
  rnow,                 \* Date.now() of the reply
  stream,               \* history: the agent callbacks received, in order
  hist,                 \* history: counts of the calls issued and of their failures

  \* ---- monitor.ts ----
  activeSessionId,    \* module-level session generation
  currentWsClient,    \* module-level reference: a client id or NULL
  processedMessages,  \* module-level dedup cache: message id -> first-seen time
  clients,            \* every WSClient created so far, in creation order
  now,                \* Date.now() of the monitor
  lastEvent,          \* history: the handler invocation the last step performed, if any
  lastFwd,            \* history: message id -> time of its latest handleFeishuMessage call
  inflight,           \* message id -> number of handleFeishuMessage calls not yet settled
  probes              \* monitorFeishuProvider calls suspended at "await fetchBotOpenId"

mvars == <<activeSessionId, currentWsClient, processedMessages, clients, now,
           lastEvent, lastFwd, inflight, probes>>

rvars == <<cardMessageId, accumulatedText, lastPatchTime, pendingPatchTimer,
           streamingFailed, cardCreationPromise, thinkingText, activeTools,
           completedTools, thinkingStopped, hasThinkingContent, standaloneDelivered,
           waiters, net, chat, rnow, stream, hist>>

vars == <<mvars, rvars>>

(***************************************************************************)
(* The state of a reply dispatcher after createFeishuReplyDispatcher.      *)
(***************************************************************************)
NoCalls == [creates |-> 0, updates |-> 0, finals |-> 0, standalones |-> 0,
            texts |-> 0, failures |-> 0, rejected |-> 0, surfaced |-> 0,
            received |-> <<>>, timers |-> 0, fired |-> 0]

InitReplyState ==
  /\ cardMessageId = NULL
  /\ accumulatedText = <<>>
  /\ lastPatchTime = 0
  /\ pendingPatchTimer = NoTimer
  /\ streamingFailed = FALSE
  /\ cardCreationPromise = FALSE
  /\ thinkingText = NoThinking
  /\ activeTools = <<>>
  /\ completedTools = <<>>
  /\ thinkingStopped = FALSE
  /\ hasThinkingContent = FALSE
  /\ standaloneDelivered = FALSE
  /\ waiters = 0
  /\ net = <<>>
  /\ chat = <<>>
  /\ rnow = ReplyStart
  /\ stream = <<>>
  /\ hist = NoCalls

\* the sum of f over the finite set S
RECURSIVE SumOver(_, _)
SumOver(f, S) ==
  IF S = {} THEN 0
  ELSE LET x == CHOOSE y \in S : TRUE IN f[x] + SumOver(f, S \ {x})

(***************************************************************************)
(* monitor.ts                                                              *)
(***************************************************************************)

\* mutant: the prune pass with "now - ts >= DEDUP_TTL_MS"
pruneProcessedMessages_AtTTL(pm, t) ==
  LET keep == {id \in DOMAIN pm : ~(t - pm[id] >= DEDUP_TTL_MS)}
  IN  [id \in keep |-> pm[id]]

\* pruneProcessedMessages(now): delete every entry older than the TTL
pruneProcessedMessages(pm, t) ==
  LET keep == {id \in DOMAIN pm : ~(t - pm[id] > DEDUP_TTL_MS)}
  IN  [id \in keep |-> pm[id]]

\* processedMessages.set(msgId, now); if (size > 200) prune
recordMessage(pm, m, t) ==
  LET ins == [id \in (DOMAIN pm) \cup {m} |-> IF id = m THEN t ELSE pm[id]]
  IN  IF Cardinality(DOMAIN ins) > PRUNE_THRESHOLD
        THEN pruneProcessedMessages(ins, t)
        ELSE ins

\* mutant: forceStopWSClient without its try/catch
forceStopWSClient_NoCatch(cs, c, fails) ==
  [clients |-> [cs EXCEPT ![c].stopped = TRUE],
   threw |-> fails, failed |-> IF fails THEN {c} ELSE {}]

\* forceStopWSClient(client): timers cleared, auto-reconnect disabled, the
\* socket terminated through private SDK fields.  fails: one of these steps
\* throws; the function catches it, so that it never throws itself.
\* The client counts as force-terminated whatever the transport did; the
\* model keeps no socket state, because the teardown is best-effort: a
\* started client may deliver an event at any later time (its transport
\* failed to close), and a transport that did close is the behaviour in
\* which it delivers none.  failed: the clients whose teardown failed.
forceStopWSClient(cs, c, fails) ==
  [clients |-> [cs EXCEPT ![c].stopped = TRUE],
   threw |-> FALSE, failed |-> IF fails THEN {c} ELSE {}]

\* mutant: cleanup() without its "currentWsClient === wsClient" test
cleanup_Always(cs, cur, c, fails) ==
  LET r == forceStopWSClient(cs, c, fails)
  IN  [clients |-> r.clients, current |-> IF r.threw THEN cur ELSE NULL,
       threw |-> r.threw, failed |-> r.failed]

\* cleanup() of the promise executor of monitorWebSocket, for client c; an
\* exception of forceStopWSClient would leave before the reference is nulled
cleanup(cs, cur, c, fails) ==
  IF cur = c
    THEN LET r == forceStopWSClient(cs, c, fails)
         IN  [clients |-> r.clients, current |-> IF r.threw THEN cur ELSE NULL,
              threw |-> r.threw, failed |-> r.failed]
    ELSE [clients |-> cs, current |-> cur, threw |-> FALSE, failed |-> {}]

\* mutant: the handler without its stale session guard
isLive_NoGuard(c) == TRUE

\* the stale session guard of the message handler of client c
isLive(c) == clients[c].session = activeSessionId

\* mutant: the previous client is dropped without being force-stopped
stopPrevious_NoStop(cs, cur, fails) ==
  [clients |-> cs, current |-> NULL, threw |-> FALSE, failed |-> {}]

\* the block of monitorWebSocket and stopFeishuMonitor that retires the
\* current client and nulls the reference
stopPrevious(cs, cur, fails) ==
  IF cur # NULL
    THEN LET r == forceStopWSClient(cs, cur, fails)
         IN  [clients |-> r.clients, current |-> IF r.threw THEN cur ELSE NULL,
              threw |-> r.threw, failed |-> r.failed]
    ELSE [clients |-> cs, current |-> NULL, threw |-> FALSE, failed |-> {}]

\* monitorWebSocket: everything up to the return of the promise runs
\* synchronously.  preAborted: abortSignal.aborted at call time (the
\* handshake is never started); startThrows: wsClient.start throws;
\* prevFails, ownFails: the teardown of the previous client, and of the new
\* client in cleanup(), fails.  An exception of the first teardown would
\* leave the function before the client is created; one of cleanup() would
\* leave the promise executor and reject the promise.  outcome: what
\* lastEvent records of the call, next to the teardowns that failed in it.
monitorWebSocket(outcome, preAborted, startThrows, prevFails, ownFails) ==
  /\ LET mySessionId == activeSessionId + 1
         prev == stopPrevious(clients, currentWsClient, prevFails)
         wsClient == Len(clients) + 1
         fresh == [session |-> mySessionId, stopped |-> FALSE,
                   started |-> ~preAborted, promise |-> "pending"]
         cs2 == Append(prev.clients, fresh)
     IN  /\ activeSessionId' = mySessionId
         /\ IF prev.threw
              THEN /\ clients' = prev.clients
                   /\ currentWsClient' = prev.current
                   /\ lastEvent' = [kind |-> "start", outcome |-> outcome,
                                    failed |-> prev.failed]
              ELSE IF preAborted
                THEN LET r == cleanup(cs2, wsClient, wsClient, ownFails)
                     IN  /\ clients' = [r.clients EXCEPT ![wsClient].promise =
                                          IF r.threw THEN "rejected" ELSE "resolved"]
                         /\ currentWsClient' = r.current
                         /\ lastEvent' = [kind |-> "start", outcome |-> outcome,
                                          failed |-> prev.failed \cup r.failed]
              ELSE IF startThrows
                THEN LET r == cleanup(cs2, wsClient, wsClient, ownFails)
                     IN  /\ clients' = [r.clients EXCEPT ![wsClient].promise = "rejected"]
                         /\ currentWsClient' = r.current
                         /\ lastEvent' = [kind |-> "start", outcome |-> outcome,
                                          failed |-> prev.failed \cup r.failed]
                ELSE /\ clients' = cs2
                     /\ currentWsClient' = wsClient
                     /\ lastEvent' = [kind |-> "start", outcome |-> outcome,
                                      failed |-> prev.failed]
  /\ UNCHANGED <<processedMessages, now, lastFwd, inflight>>

\* mutant: monitorFeishuProvider without its configuration checks
monitorFeishuProvider_NoCheck(hasCfg, hasCreds) ==
  /\ lastEvent' = [kind |-> "start",
                   outcome |-> IF hasCfg /\ hasCreds THEN "probing" ELSE "threw",
                   failed |-> {}]
  /\ probes' = probes + 1
  /\ UNCHANGED <<activeSessionId, currentWsClient, processedMessages, clients,
                 now, lastFwd, inflight>>

\* monitorFeishuProvider up to its await: it throws when the configuration
\* or the credentials are absent, and else it is suspended at
\* "await fetchBotOpenId(feishuCfg)" (credentials imply that feishuCfg is
\* present).  lastEvent records the outcome.
monitorFeishuProvider(hasCfg, hasCreds) ==
  /\ IF ~hasCfg \/ ~hasCreds
       THEN /\ lastEvent' = [kind |-> "start", outcome |-> "threw", failed |-> {}]
            /\ probes' = probes
       ELSE /\ lastEvent' = [kind |-> "start", outcome |-> "probing", failed |-> {}]
            /\ probes' = probes + 1
  /\ UNCHANGED <<activeSessionId, currentWsClient, processedMessages, clients,
                 now, lastFwd, inflight>>

\* monitorFeishuProvider after the probe has settled (fetchBotOpenId never
\* rejects): the connection mode and, in monitorWebSocket, the abort signal
\* are read now; it runs monitorWebSocket in websocket mode and only logs
\* in webhook mode.
botOpenIdResolved(connectionMode, preAborted, startThrows, prevFails, ownFails) ==
  /\ probes > 0
  /\ probes' = probes - 1
  /\ IF connectionMode = "websocket"
       THEN monitorWebSocket("websocket", preAborted, startThrows, prevFails, ownFails)
       ELSE /\ lastEvent' = [kind |-> "start", outcome |-> "webhook", failed |-> {}]
            /\ UNCHANGED <<activeSessionId, currentWsClient, processedMessages, clients,
                           now, lastFwd, inflight>>

\* mutant: the abort handler tears down whichever client is current
handleAbort_StopsCurrent(c, fails) ==
  /\ clients[c].promise = "pending"
  /\ LET r == stopPrevious(clients, currentWsClient, fails)
     IN  /\ clients' = [r.clients EXCEPT ![c].promise = "resolved"]
         /\ currentWsClient' = r.current
         /\ lastEvent' = [kind |-> "abort", failed |-> r.failed]
  /\ UNCHANGED <<probes, activeSessionId, processedMessages, now, lastFwd, inflight>>

\* handleAbort of client c.  The abort listener is registered once, after
\* the pre-aborted check has resolved the promise, and is removed when the
\* handshake throws and rejects it: it is registered exactly while the
\* promise is pending.  An exception of cleanup() would leave before
\* resolve().
handleAbort(c, fails) ==
  /\ clients[c].promise = "pending"
  /\ LET r == cleanup(clients, currentWsClient, c, fails)
     IN  /\ clients' = [r.clients EXCEPT ![c].promise =
                          IF r.threw THEN @ ELSE "resolved"]
         /\ currentWsClient' = r.current
         /\ lastEvent' = [kind |-> "abort", failed |-> r.failed]
  /\ UNCHANGED <<probes, activeSessionId, processedMessages, now, lastFwd, inflight>>

\* mutant: stopFeishuMonitor that keeps the reference to the stopped client
stopFeishuMonitor_KeepCurrent(fails) ==
  /\ activeSessionId' = activeSessionId + 1
  /\ LET prev == stopPrevious(clients, currentWsClient, fails)
     IN  /\ clients' = prev.clients
         /\ lastEvent' = [kind |-> "stop", failed |-> prev.failed]
  /\ currentWsClient' = currentWsClient
  /\ UNCHANGED <<probes, processedMessages, now, lastFwd, inflight>>

\* stopFeishuMonitor
stopFeishuMonitor(fails) ==
  /\ activeSessionId' = activeSessionId + 1
  /\ LET prev == stopPrevious(clients, currentWsClient, fails)
     IN  /\ clients' = prev.clients
         /\ currentWsClient' = prev.current
         /\ lastEvent' = [kind |-> "stop", failed |-> prev.failed]
  /\ UNCHANGED <<probes, processedMessages, now, lastFwd, inflight>>

\* mutant: the handler without its duplicate check
forwards_NoDedup(c, m) == isLive(c)

\* mutant: an event without a message id is dropped
forwards_IdRequired(c, m) ==
  /\ isLive(c)
  /\ m # NoId
  /\ m \notin DOMAIN processedMessages

\* whether the handler of client c, given an event with message id m,
\* reaches the call of handleFeishuMessage
forwards(c, m) ==
  /\ isLive(c)
  /\ (m = NoId \/ m \notin DOMAIN processedMessages)

\* history: how the latest handleFeishuMessage call for message id m, if any,
\* relates to the TTL window that ends now
seenBefore(m) ==
  IF m = NoId \/ lastFwd[m] = Never THEN "never"
  ELSE IF now - lastFwd[m] <= DEDUP_TTL_MS THEN "inWindow"
  ELSE "expired"

\* the number of handleFeishuMessage calls that have not settled
pendingCalls == SumOver(inflight, EventIds)

\* the "im.message.receive_v1" handler of client c, up to its await.
\* lastEvent records what this invocation saw and did.
onMessageReceive(c, m) ==
  /\ clients[c].started
  /\ LET fwd == forwards(c, m)
     IN  /\ fwd => pendingCalls < MaxInflight
         /\ processedMessages' =
              IF fwd /\ m # NoId THEN recordMessage(processedMessages, m, now)
                                 ELSE processedMessages
         /\ lastEvent' = [kind |-> "message", hasId |-> m # NoId,
                          live |-> isLive(c), fwd |-> fwd,
                          seen |-> seenBefore(m),
                          stopped |-> clients[c].stopped,
                          superseded |-> c < Len(clients),
                          cached |-> m # NoId /\ m \in DOMAIN processedMessages,
                          cacheSame |-> processedMessages' = processedMessages,
                          busy |-> inflight[m] > 0]
         /\ lastFwd' = IF fwd /\ m # NoId THEN [lastFwd EXCEPT ![m] = now] ELSE lastFwd
         /\ inflight' = IF fwd THEN [inflight EXCEPT ![m] = @ + 1] ELSE inflight
  /\ UNCHANGED <<probes, activeSessionId, currentWsClient, clients, now>>

\* the event types that have a handler besides "im.message.receive_v1"
OtherEventTypes ==
  {"im.message.message_read_v1", "im.chat.member.bot.added_v1",
   "im.chat.member.bot.deleted_v1"}

\* the handlers of client c for the other event types: the read receipt is
\* ignored, the two membership events are logged.  None of them looks at the
\* generation, the cache or the agent boundary.
onOtherEvent(c, type) ==
  /\ clients[c].started
  /\ lastEvent' = [kind |-> type]
  /\ UNCHANGED <<probes, activeSessionId, currentWsClient, processedMessages, clients,
                 now, lastFwd, inflight>>

\* an awaited handleFeishuMessage call for message id m settles (it
\* resolves, or it rejects and the handler's catch logs the error)
messageHandled(m) ==
  /\ inflight[m] > 0
  /\ inflight' = [inflight EXCEPT ![m] = @ - 1]
  /\ lastEvent' = NoEvent
  /\ UNCHANGED <<probes, activeSessionId, currentWsClient, processedMessages, clients, now, lastFwd>>

\* time passes
tick ==
  /\ now' = now + TickMs
  /\ lastEvent' = NoEvent
  /\ UNCHANGED <<probes, activeSessionId, currentWsClient, processedMessages, clients,
                 lastFwd, inflight>>

\* the cache once the handler of the first connection has recorded
\* PRUNE_THRESHOLD messages at time 0 (no prune has run: the size never
\* exceeded the threshold)
PrefilledCache == [id \in FillerIds |-> 0]
EmptyCache == [id \in {} |-> 0]

InitMonitor ==
  /\ activeSessionId = 0
  /\ currentWsClient = NULL
  /\ processedMessages = EmptyCache
  /\ clients = <<>>
  /\ now = 0
  /\ lastEvent = NoEvent
  /\ lastFwd = [m \in TrackedIds |-> Never]
  /\ inflight = [m \in EventIds |-> 0]
  /\ probes = 0

\* the inputs of a call of monitorFeishuProvider: whether configuration and
\* credentials are present, the connection mode, whether the abort signal is
\* already aborted, whether wsClient.start throws, whether a teardown fails
AllStartInputs ==
  [configured |-> BOOLEAN, modes |-> {"websocket", "webhook"},
   preAborted |-> BOOLEAN, startThrows |-> BOOLEAN, teardownFails |-> BOOLEAN]

\* the inputs of a call that is configured for websocket mode and connects
ConnectingStartInputs ==
  [configured |-> {TRUE}, modes |-> {"websocket"},
   preAborted |-> {FALSE}, startThrows |-> {FALSE}, teardownFails |-> {FALSE}]

\* A call of monitorFeishuProvider.  The generations still to come are
\* reserved for the calls that are suspended.
StartConnection(cap, In) ==
  /\ activeSessionId + probes < cap
  /\ \E configured \in In.configured :
       IF configured
         THEN monitorFeishuProvider(TRUE, TRUE)
         ELSE \E hasCfg \in BOOLEAN, hasCreds \in BOOLEAN :
                /\ ~(hasCfg /\ hasCreds)
                /\ monitorFeishuProvider(hasCfg, hasCreds)

\* The probe of a suspended call settles.  A call that runs in webhook mode
\* reads no other input.
ProbeSettles(In) ==
  \E connectionMode \in In.modes :
    IF connectionMode = "websocket"
      THEN \E preAborted \in In.preAborted, startThrows \in In.startThrows,
              prevFails \in In.teardownFails, ownFails \in In.teardownFails :
             botOpenIdResolved(connectionMode, preAborted, startThrows,
                               prevFails, ownFails)
      ELSE botOpenIdResolved(connectionMode, FALSE, FALSE, FALSE, FALSE)

AbortSignal(TeardownFails) ==
  \E c \in 1..Len(clients), fails \in TeardownFails : handleAbort(c, fails)

StopConnection(cap, TeardownFails) ==
  /\ activeSessionId + probes < cap
  /\ \E fails \in TeardownFails : stopFeishuMonitor(fails)

DeliverMessage == \E c \in 1..Len(clients), m \in EventIds : onMessageReceive(c, m)

DeliverOtherEvent ==
  \E c \in 1..Len(clients), type \in OtherEventTypes : onOtherEvent(c, type)

MessageHandled == \E m \in EventIds : messageHandled(m)

TickMonitor ==
  /\ now < MaxTicks * TickMs
  /\ tick

(***************************************************************************)
(* SpecMonitor: the connection lifecycle and the event router, with the    *)
(* clock held at 0.                                                        *)
(***************************************************************************)
NextMonitor ==
  /\ \/ StartConnection(MaxSession, AllStartInputs)
     \/ ProbeSettles(AllStartInputs)
     \/ AbortSignal(BOOLEAN)
     \/ StopConnection(MaxSession, BOOLEAN)
     \/ DeliverMessage
     \/ DeliverOtherEvent
     \/ MessageHandled
  /\ UNCHANGED rvars

\* the monitor alone: no reply is in progress
InitMonitorOnly == InitMonitor /\ InitReplyState

SpecMonitor == InitMonitorOnly /\ [][NextMonitor]_vars

(***************************************************************************)
(* SpecDedup: the same program with time passing, started in the state   *)
(* the first connection is in once its handler has recorded the            *)
(* PRUNE_THRESHOLD messages of earlier traffic (all at time 0, all         *)
(* settled), so that prune passes run.                                     *)
(* Every start connects and every teardown succeeds here; the other        *)
(* outcomes are in SpecMonitor.                                            *)
(***************************************************************************)
InitDedup ==
  /\ activeSessionId = 1
  /\ currentWsClient = 1
  /\ processedMessages = PrefilledCache
  /\ clients = <<[session |-> 1, stopped |-> FALSE, started |-> TRUE,
                  promise |-> "pending"]>>
  /\ now = 0
  /\ lastEvent = NoEvent
  /\ lastFwd = [m \in TrackedIds |-> Never]
  /\ inflight = [m \in EventIds |-> 0]
  /\ probes = 0

NextDedup ==
  /\ \/ StartConnection(MaxDedupSession, ConnectingStartInputs)
     \/ ProbeSettles(ConnectingStartInputs)
     \/ AbortSignal({FALSE})
     \/ StopConnection(MaxDedupSession, {FALSE})
     \/ DeliverMessage
     \/ MessageHandled
     \/ TickMonitor
  /\ UNCHANGED rvars

InitDedupOnly == InitDedup /\ InitReplyState

SpecDedup == InitDedupOnly /\ [][NextDedup]_vars

(***************************************************************************)
(* reply-dispatcher.ts: text functions                                     *)
(***************************************************************************)

\* the characters of the class [\r\n]
IsLineBreak(ch) == ch \in {"\n", "\r"}
\* the line terminators of the language, which "." does not match; a
\* character no string escape spells is written as its code point
IsLineTerminator(ch) == ch \in {"\n", "\r", "U+2028", "U+2029"}
IsSeparatorChar(ch) == ch \in {"-", ":", "|", " "}
\* the white space of the language other than tab, form feed and space
UnicodeSpaces ==
  {"U+000B", "U+00A0", "U+1680", "U+2000", "U+2001", "U+2002", "U+2003", "U+2004",
   "U+2005", "U+2006", "U+2007", "U+2008", "U+2009", "U+200A", "U+202F", "U+205F",
   "U+3000", "U+FEFF"}
\* the characters String.prototype.trim removes: white space and line
\* terminators
IsWhitespace(ch) ==
  \/ ch \in {" ", "\t", "\f"}
  \/ ch \in UnicodeSpaces
  \/ IsLineTerminator(ch)

\* !text.trim()
IsBlank(text) == \A i \in 1..Len(text) : IsWhitespace(text[i])

\* hasMarkdownTable: /\|.+\|[\r\n]+\|[-:| ]+\|/.test(text).  A match is a
\* pipe at i, a run of one or more characters other than line terminators,
\* a pipe at j, a run of one or more line breaks, a pipe at k, a run of one
\* or more separator characters, and a pipe at l.
hasMarkdownTable(text) ==
  \E i \in 1..Len(text) :
    /\ text[i] = "|"
    /\ \E j \in (i + 2)..Len(text) :
         /\ text[j] = "|"
         /\ \A x \in (i + 1)..(j - 1) : ~IsLineTerminator(text[x])
         /\ \E k \in (j + 2)..Len(text) :
              /\ text[k] = "|"
              /\ \A x \in (j + 1)..(k - 1) : IsLineBreak(text[x])
              /\ \E l \in (k + 2)..Len(text) :
                   /\ text[l] = "|"
                   /\ \A x \in (k + 1)..(l - 1) : IsSeparatorChar(text[x])

\* the positions repairMarkdownTables deletes: the first "\n" of a pair
\* "\n\n" that follows a pipe closing a run "|...|" without a newline in it
\* and that is followed by a pipe
RepairDrop(text) ==
  {p \in 2..(Len(text) - 2) :
     /\ text[p] = NL /\ text[p + 1] = NL /\ text[p + 2] = "|"
     /\ text[p - 1] = "|"
     /\ \E i \in 1..(p - 2) :
          /\ text[i] = "|"
          /\ \A x \in i..(p - 1) : text[x] # NL}

RECURSIVE DropAt(_, _, _)
\* text from position i on, without the positions of D
DropAt(text, D, i) ==
  IF i > Len(text) THEN <<>>
  ELSE IF i \in D THEN DropAt(text, D, i + 1)
  ELSE <<text[i]>> \o DropAt(text, D, i + 1)

\* repairMarkdownTables: text.replace(/(\|[^\n]*\|)\n\n(?=\|)/g, "$1\n")
repairMarkdownTables(text) == DropAt(text, RepairDrop(text), 1)

\* core.channel.text.convertMarkdownTables (plugin SDK): table markup is
\* rewritten to plain text, text without a table is left as it is
convertMarkdownTables(text) ==
  IF hasMarkdownTable(text)
    THEN [i \in 1..Len(text) |-> IF text[i] = "|" THEN " " ELSE text[i]]
    ELSE text

RECURSIVE chunkTextWithMode(_, _)
\* core.channel.text.chunkTextWithMode (plugin SDK), chunkMode "length":
\* consecutive pieces of at most limit characters
chunkTextWithMode(text, limit) ==
  IF Len(text) = 0 THEN <<>>
  ELSE IF Len(text) <= limit THEN <<text>>
  ELSE <<SubSeq(text, 1, limit)>> \o
       chunkTextWithMode(SubSeq(text, limit + 1, Len(text)), limit)

(***************************************************************************)
(* reply-dispatcher.ts: card rendering.  A card is the record of what its  *)
(* elements show; the wording of titles and the elapsed time of the        *)
(* collapse summary are not represented.                                   *)
(***************************************************************************)

\* an absent option (undefined)
Undefined == [undefined |-> TRUE]
\* the texts "Thinking..." used where there is no content yet
ThinkingPlaceholder == [placeholder |-> TRUE]
\* the title of the panel while thinking is live
LiveTitle == [live |-> TRUE]

\* t.slice(-n) of a sequence or text
LastN(t, n) == IF Len(t) > n THEN SubSeq(t, Len(t) - n + 1, Len(t)) ELSE t

\* buildThinkingSection: the reasoning snapshot, cut to the marker and its
\* last maxLen characters when it is longer, then the last ten completed
\* tools and the active tools by name, in the order of the Map; the empty
\* string (Undefined) when there is none of them.  Events carry no args.
buildThinkingSection(text, active, completed, maxLen) ==
  IF text = NoThinking /\ completed = <<>> /\ active = <<>>
    THEN Undefined
    ELSE [text |-> IF Len(text) > maxLen THEN Ellipsis \o LastN(text, maxLen)
                                         ELSE text,
          completed |-> LastN(completed, MaxCompletedShown),
          active |-> [i \in 1..Len(active) |-> active[i].name]]

\* buildThinkingCollapseSummary: the counts of the completed tools
buildThinkingCollapseSummary(completed) ==
  [tools |-> Len(completed),
   failed |-> Cardinality({i \in 1..Len(completed) : completed[i].failed})]

\* buildUnifiedCard: an optional collapsible panel and an optional reply
buildUnifiedCard(thinkingMarkdown, thinkingExpanded, thinkingTitle, replyMarkdown) ==
  [panel |-> IF thinkingMarkdown # Undefined
               THEN [expanded |-> thinkingExpanded, title |-> thinkingTitle,
                     content |-> thinkingMarkdown]
               ELSE Undefined,
   reply |-> replyMarkdown]

\* the reply element of a card: a text and whether the cursor follows it
ReplyMarkdown(text, withCursor) == [text |-> text, cursor |-> withCursor]

(***************************************************************************)
(* reply-dispatcher.ts: the closure of createFeishuReplyDispatcher.  Its   *)
(* functions are operators from the state of the closure to its next       *)
(* state; an operator stands for the synchronous part of the function, up  *)
(* to the await of the network call it issues.  The continuation after the *)
(* await is in the operator that settles the call.                         *)
(***************************************************************************)

State ==
  [cardMessageId |-> cardMessageId, accumulatedText |-> accumulatedText,
   lastPatchTime |-> lastPatchTime, pendingPatchTimer |-> pendingPatchTimer,
   streamingFailed |-> streamingFailed, cardCreationPromise |-> cardCreationPromise,
   thinkingText |-> thinkingText, activeTools |-> activeTools,
   completedTools |-> completedTools, thinkingStopped |-> thinkingStopped,
   hasThinkingContent |-> hasThinkingContent,
   standaloneDelivered |-> standaloneDelivered,
   waiters |-> waiters, net |-> net, chat |-> chat, rnow |-> rnow,
   stream |-> stream, hist |-> hist]

\* the step that takes the closure to state s
Commit(s) ==
  /\ cardMessageId' = s.cardMessageId
  /\ accumulatedText' = s.accumulatedText
  /\ lastPatchTime' = s.lastPatchTime
  /\ pendingPatchTimer' = s.pendingPatchTimer
  /\ streamingFailed' = s.streamingFailed
  /\ cardCreationPromise' = s.cardCreationPromise
  /\ thinkingText' = s.thinkingText
  /\ activeTools' = s.activeTools
  /\ completedTools' = s.completedTools
  /\ thinkingStopped' = s.thinkingStopped
  /\ hasThinkingContent' = s.hasThinkingContent
  /\ standaloneDelivered' = s.standaloneDelivered
  /\ waiters' = s.waiters
  /\ net' = s.net
  /\ chat' = s.chat
  /\ rnow' = s.rnow
  /\ stream' = s.stream
  /\ hist' = s.hist

\* buildCurrentCard(isFinal)
buildCurrentCard(s, isFinal) ==
  LET cursor == ~(isFinal \/ ~showCursor)
      replyMd == IF s.accumulatedText # <<>>
                   THEN ReplyMarkdown(repairMarkdownTables(s.accumulatedText), cursor)
                   ELSE Undefined
      thinkingMd == buildThinkingSection(s.thinkingText, s.activeTools, s.completedTools,
                                        ThinkingMaxLen)
      hasThinking == s.hasThinkingContent \/ thinkingMd # Undefined
      collapseSummary == buildThinkingCollapseSummary(s.completedTools)
  IN  buildUnifiedCard(
        IF hasThinking
          THEN (IF thinkingMd # Undefined THEN thinkingMd ELSE ThinkingPlaceholder)
          ELSE Undefined,
        ~s.thinkingStopped,
        IF s.thinkingStopped THEN collapseSummary ELSE LiveTitle,
        IF replyMd # Undefined THEN replyMd
        ELSE IF ~hasThinking THEN ThinkingPlaceholder ELSE Undefined)

\* patchCard from the build of the card on: the card is created when there
\* is none, and updated otherwise.  from is the accumulated text the card
\* was built from.
patchCardSend(s, isFinal) ==
  LET card == buildCurrentCard(s, isFinal)
  IN  IF s.cardMessageId = NULL
        THEN [s EXCEPT !.net = Append(@, [op |-> "create", final |-> isFinal,
                                          card |-> card, from |-> s.accumulatedText]),
                       !.cardCreationPromise = TRUE,
                       !.hist.creates = @ + 1]
        ELSE [s EXCEPT !.net = Append(@, [op |-> "update", final |-> isFinal,
                                          id |-> s.cardMessageId,
                                          card |-> card, from |-> s.accumulatedText]),
                       !.hist.updates = @ + 1]

\* mutant: patchCard that does not wait for a creation in flight
patchCard_NoWait(s, isFinal) ==
  IF s.streamingFailed THEN s
  ELSE IF ~isFinal /\ s.accumulatedText # <<>> /\ hasMarkdownTable(s.accumulatedText)
    THEN s
  ELSE patchCardSend(s, isFinal)

\* patchCard(isFinal) up to its first await: it returns when streaming has
\* failed or when an intermediate patch would show a table, it suspends at
\* "await cardCreationPromise" while a creation is in flight, and else it
\* sends
patchCard(s, isFinal) ==
  IF s.streamingFailed THEN s
  ELSE IF ~isFinal /\ s.accumulatedText # <<>> /\ hasMarkdownTable(s.accumulatedText)
    THEN s
  ELSE IF s.cardCreationPromise THEN [s EXCEPT !.waiters = @ + 1]
  ELSE patchCardSend(s, isFinal)

\* mutant: schedulePatch without its "pendingPatchTimer" test
schedulePatch_NoPendingCheck(s) ==
  LET elapsed == s.rnow - s.lastPatchTime
      delay == IF patchIntervalMs - elapsed > 0 THEN patchIntervalMs - elapsed ELSE 0
  IN  [s EXCEPT !.pendingPatchTimer = s.rnow + delay,
                !.hist.timers = @ + 1]

\* schedulePatch: pendingPatchTimer holds the deadline of the timer, and
\* hist.timers counts the timers set and neither fired nor cleared,
\* hist.fired the timer callbacks that have run
schedulePatch(s) ==
  IF s.pendingPatchTimer # NoTimer THEN s
  ELSE LET elapsed == s.rnow - s.lastPatchTime
           delay == IF patchIntervalMs - elapsed > 0 THEN patchIntervalMs - elapsed ELSE 0
       IN  [s EXCEPT !.pendingPatchTimer = s.rnow + delay,
                     !.hist.timers = @ + 1]

\* clearPendingPatch
clearPendingPatch(s) ==
  IF s.pendingPatchTimer # NoTimer
    THEN [s EXCEPT !.pendingPatchTimer = NoTimer, !.hist.timers = @ - 1]
    ELSE s

\* triggerThinkingUpdate
triggerThinkingUpdate(s) ==
  IF s.thinkingStopped THEN s
  ELSE LET s1 == [s EXCEPT !.hasThinkingContent = TRUE]
       IN  IF s1.rnow - s1.lastPatchTime >= DEFAULT_THINKING_UPDATE_INTERVAL_MS
             THEN patchCard(s1, FALSE)
             ELSE schedulePatch(s1)

\* the callback of the timer of schedulePatch
patchTimerFired(s) ==
  LET s1 == [s EXCEPT !.pendingPatchTimer = NoTimer, !.hist.timers = @ - 1,
                      !.hist.fired = @ + 1]
  IN  IF ~s1.streamingFailed THEN patchCard(s1, FALSE) ELSE s1

\* deliverStandalone(text) up to the await of its card send
deliverStandalone(s, text) ==
  LET card == buildUnifiedCard(Undefined, FALSE, Undefined, ReplyMarkdown(text, FALSE))
  IN  [s EXCEPT !.net = Append(@, [op |-> "standalone", card |-> card, text |-> text]),
                !.hist.standalones = @ + 1]

\* doDeliverFinalReply up to its first await
doDeliverFinalReply(s) ==
  LET fullText == s.accumulatedText
  IN  IF IsBlank(fullText) THEN s
      ELSE IF s.cardMessageId # NULL
        THEN LET s1 == [s EXCEPT !.thinkingStopped = TRUE]
                 md == buildThinkingSection(s1.thinkingText, s1.activeTools,
                                            s1.completedTools, ThinkingMaxLen)
                 card == buildUnifiedCard(
                           IF s1.hasThinkingContent
                             THEN (IF md # Undefined THEN md ELSE ThinkingPlaceholder)
                             ELSE Undefined,
                           FALSE,
                           buildThinkingCollapseSummary(s1.completedTools),
                           ReplyMarkdown(fullText, FALSE))
             IN  [s1 EXCEPT !.net = Append(@, [op |-> "finalize", id |-> s1.cardMessageId,
                                               card |-> card, text |-> fullText]),
                            !.hist.finals = @ + 1]
      ELSE IF ~s.standaloneDelivered
        THEN deliverStandalone([s EXCEPT !.standaloneDelivered = TRUE], fullText)
      ELSE s

\* mutant: deliver that appends without the separating newline
deliver_NoSeparator(s, text, kind) ==
  LET s0 == [s EXCEPT !.hist.received = Append(@, text)]
  IN  IF IsBlank(text) THEN s0
      ELSE LET s1 == IF ~s0.thinkingStopped
                       THEN clearPendingPatch([s0 EXCEPT !.thinkingStopped = TRUE])
                       ELSE s0
               s2 == [s1 EXCEPT !.accumulatedText = @ \o text]
           IN  IF kind = "final" THEN doDeliverFinalReply(s2) ELSE s2

\* mutant: deliver that stops thinking without cancelling the timer
deliver_KeepTimer(s, text, kind) ==
  IF IsBlank(text) THEN [s EXCEPT !.hist.received = Append(@, text)]
  ELSE LET s0 == [s EXCEPT !.hist.received = Append(@, text)]
           s1 == [s0 EXCEPT !.thinkingStopped = TRUE]
           sep == IF /\ s1.accumulatedText # <<>>
                     /\ s1.accumulatedText[Len(s1.accumulatedText)] # NL
                     /\ text[1] # NL
                    THEN <<NL>> ELSE <<>>
           s2 == [s1 EXCEPT !.accumulatedText = @ \o sep \o text]
       IN  IF kind = "final" THEN doDeliverFinalReply(s2) ELSE s2

\* dispatcherOptions.deliver(payload, info) up to its first await;
\* hist.received records the payload texts it was called with
deliver(s, text, kind) ==
  IF IsBlank(text) THEN [s EXCEPT !.hist.received = Append(@, text)]
  ELSE LET s0 == [s EXCEPT !.hist.received = Append(@, text)]
           s1 == IF ~s0.thinkingStopped
                   THEN clearPendingPatch([s0 EXCEPT !.thinkingStopped = TRUE])
                   ELSE s0
           sep == IF /\ s1.accumulatedText # <<>>
                     /\ s1.accumulatedText[Len(s1.accumulatedText)] # NL
                     /\ text[1] # NL
                    THEN <<NL>> ELSE <<>>
           s2 == [s1 EXCEPT !.accumulatedText = @ \o sep \o text]
       IN  IF kind = "final" THEN doDeliverFinalReply(s2) ELSE s2

\* dispatcherOptions.onIdle
onIdle(s) ==
  LET s1 == [clearPendingPatch(s) EXCEPT !.thinkingStopped = TRUE]
  IN  IF ~IsBlank(s1.accumulatedText) THEN doDeliverFinalReply(s1) ELSE s1

\* dispatcherOptions.onError: the pending patch is dropped
onError(s) == clearPendingPatch(s)

\* replyOptions.onReasoningStream(payload); the empty text is payload.text
\* absent or empty
onReasoningStream(s, text) ==
  IF text # NoThinking
    THEN triggerThinkingUpdate([s EXCEPT !.thinkingText = text])
    ELSE s

\* the positions of the entry of toolCallId in the Map (none or one)
ToolEntryAt(tools, toolCallId) == {i \in 1..Len(tools) : tools[i].id = toolCallId}

\* activeTools.set(toolCallId, entry): a key that is present keeps its place
MapSet(tools, toolCallId, name) ==
  IF ToolEntryAt(tools, toolCallId) # {}
    THEN [i \in 1..Len(tools) |-> IF tools[i].id = toolCallId
                                    THEN [id |-> toolCallId, name |-> name]
                                    ELSE tools[i]]
    ELSE Append(tools, [id |-> toolCallId, name |-> name])

\* activeTools.delete(toolCallId)
MapDelete(tools, toolCallId) == SelectSeq(tools, LAMBDA t : t.id # toolCallId)

\* replyOptions.onAgentEvent(evt) of the tool stream; an event without a
\* tool call id is ignored
onAgentEvent(s, phase, toolCallId, name, isError) ==
  IF phase = "start" /\ toolCallId # NoToolCallId
    THEN triggerThinkingUpdate([s EXCEPT !.activeTools = MapSet(@, toolCallId, name)])
  ELSE IF phase = "result" /\ toolCallId # NoToolCallId
    THEN triggerThinkingUpdate(
           IF ToolEntryAt(s.activeTools, toolCallId) # {}
             THEN LET entry == s.activeTools[CHOOSE i \in ToolEntryAt(s.activeTools,
                                                                      toolCallId) : TRUE]
                  IN  [s EXCEPT !.activeTools = MapDelete(@, toolCallId),
                                !.completedTools = Append(@, [name |-> entry.name,
                                                               failed |-> isError])]
             ELSE s)
  ELSE s

\* mutant: markDispatchIdle that patches whether or not thinking has stopped
markDispatchIdle_AlwaysPatch(s) ==
  LET s1 == clearPendingPatch(s)
      s2 == [s1 EXCEPT !.thinkingStopped = TRUE]
  IN  IF s2.cardMessageId # NULL /\ s2.hasThinkingContent
        THEN patchCard(s2, FALSE)
        ELSE s2

\* markDispatchIdle
markDispatchIdle(s) ==
  LET s1 == clearPendingPatch(s)
  IN  IF ~s1.thinkingStopped
        THEN LET s2 == [s1 EXCEPT !.thinkingStopped = TRUE]
             IN  IF s2.cardMessageId # NULL /\ s2.hasThinkingContent
                   THEN patchCard(s2, FALSE)
                   ELSE s2
        ELSE s1

(***************************************************************************)
(* reply-dispatcher.ts: the continuations that run when a network call     *)
(* settles.  A successful call takes effect in the chat when it settles.   *)
(***************************************************************************)

\* seq without its i-th element
RemoveAt(seq, i) == SubSeq(seq, 1, i - 1) \o SubSeq(seq, i + 1, Len(seq))

RECURSIVE resumeWaiters(_, _)
\* the n patchCard calls suspended at "await cardCreationPromise" resume, in
\* the order they suspended, each from the state the one before it left
resumeWaiters(s, n) ==
  IF n = 0 THEN s ELSE resumeWaiters(patchCardSend(s, FALSE), n - 1)

\* the sendCardFeishu call of patchCard settles.  When it resolves, the
\* then-callback stores the message id and the suspended patchCard calls
\* resume in the same turn of the event loop; when it rejects, the catch of
\* the creating call runs, and the await of every suspended call throws
\* outside the try: the promises of those calls reject.
createSettled(s, call, ok) ==
  IF ok
    THEN resumeWaiters(
           [s EXCEPT !.chat = Append(@, [type |-> "card", card |-> call.card]),
                     !.cardMessageId = Len(s.chat) + 1,
                     !.lastPatchTime = s.rnow,
                     !.cardCreationPromise = FALSE,
                     !.waiters = 0],
           s.waiters)
    ELSE [s EXCEPT !.cardCreationPromise = FALSE,
                   !.streamingFailed = IF s.cardMessageId = NULL THEN TRUE ELSE @,
                   !.waiters = 0,
                   !.hist.rejected = @ + s.waiters]

\* mutant: a failed update abandons streaming
updateSettled_FailureIsFinal(s, call, ok) ==
  IF ok
    THEN [s EXCEPT !.chat[call.id] = [type |-> "card", card |-> call.card],
                   !.lastPatchTime = s.rnow]
    ELSE [s EXCEPT !.cardCreationPromise = FALSE,
                   !.streamingFailed = TRUE]

\* the updateCardFeishu call of patchCard settles
updateSettled(s, call, ok) ==
  IF ok
    THEN [s EXCEPT !.chat[call.id] = [type |-> "card", card |-> call.card],
                   !.lastPatchTime = s.rnow]
    ELSE [s EXCEPT !.cardCreationPromise = FALSE,
                   !.streamingFailed = IF s.cardMessageId = NULL THEN TRUE ELSE @]

\* the updateCardFeishu call of doDeliverFinalReply settles
finalizeSettled(s, call, ok) ==
  IF ok
    THEN [s EXCEPT !.chat[call.id] = [type |-> "card", card |-> call.card]]
    ELSE IF ~s.standaloneDelivered
      THEN deliverStandalone([s EXCEPT !.standaloneDelivered = TRUE], call.text)
      ELSE s

\* the sendMessageFeishu call for the first of chunks is issued
sendChunks(s, chunks) ==
  IF chunks = <<>> THEN s
  ELSE [s EXCEPT !.net = Append(@, [op |-> "text", text |-> Head(chunks),
                                    rest |-> Tail(chunks)]),
                 !.hist.texts = @ + 1]

\* the sendCardFeishu call of deliverStandalone settles
standaloneSettled(s, call, ok) ==
  IF ok
    THEN [s EXCEPT !.chat = Append(@, [type |-> "card", card |-> call.card])]
    ELSE sendChunks(s, chunkTextWithMode(convertMarkdownTables(call.text),
                                          textChunkLimit))

\* mutant: the chunk loop goes on after a failed send
textSettled_ContinueOnError(s, call, ok) ==
  IF ok
    THEN sendChunks([s EXCEPT !.chat = Append(@, [type |-> "text", text |-> call.text])],
                    call.rest)
    ELSE sendChunks([s EXCEPT !.hist.surfaced = @ + 1], call.rest)

\* a sendMessageFeishu call of deliverStandalone settles: the loop goes on
\* to the next chunk, or the error leaves the loop
textSettled(s, call, ok) ==
  IF ok
    THEN sendChunks([s EXCEPT !.chat = Append(@, [type |-> "text", text |-> call.text])],
                    call.rest)
    ELSE [s EXCEPT !.hist.surfaced = @ + 1]

\* the i-th network call in flight settles
settle(s, i, ok) ==
  LET call == s.net[i]
      s0 == [s EXCEPT !.net = RemoveAt(@, i),
                      !.hist.failures = IF ok THEN @ ELSE @ + 1]
  IN  CASE call.op = "create" -> createSettled(s0, call, ok)
        [] call.op = "update" -> updateSettled(s0, call, ok)
        [] call.op = "finalize" -> finalizeSettled(s0, call, ok)
        [] call.op = "standalone" -> standaloneSettled(s0, call, ok)
        [] call.op = "text" -> textSettled(s0, call, ok)

(***************************************************************************)
(* SpecReply: one reply, from the creation of its dispatcher.  The agent   *)
(* calls back in any order; stream records the callbacks.                  *)
(***************************************************************************)

Logged(s, ev) == [s EXCEPT !.stream = Append(@, ev)]

ReasoningFragment ==
  /\ Len(stream) < MaxEvents
  /\ \E text \in ReasoningTexts :
       Commit(Logged(onReasoningStream(State, text), "reasoning"))

ToolStart ==
  /\ Len(stream) < MaxEvents
  /\ \E id \in ToolIds, name \in ToolNames :
       Commit(Logged(onAgentEvent(State, "start", id, name, FALSE), "toolStart"))

ToolResult ==
  /\ Len(stream) < MaxEvents
  /\ \E id \in ToolIds, name \in ToolNames, isError \in BOOLEAN :
       Commit(Logged(onAgentEvent(State, "result", id, name, isError), "toolResult"))

TextFragmentOf(texts) ==
  /\ Len(stream) < MaxEvents
  /\ \E text \in texts, kind \in Kinds :
       Commit(Logged(deliver(State, text, kind),
                     IF IsBlank(text) THEN "blank" ELSE kind))

TextFragment == TextFragmentOf(Fragments)

JoinTextFragment == TextFragmentOf(JoinFragments)

IdleSignal ==
  /\ Len(stream) < MaxEvents
  /\ Commit(Logged(onIdle(State), "idle"))

\* the dispatcher reports a failed delivery; the history of the agent
\* callbacks does not record it.  Without a pending timer the callback
\* changes nothing.
ErrorSignal ==
  /\ pendingPatchTimer # NoTimer
  /\ Commit(onError(State))

DispatchIdle ==
  /\ Len(stream) < MaxEvents
  /\ Commit(Logged(markDispatchIdle(State), "dispatchIdle"))

PatchTimerFires ==
  /\ pendingPatchTimer # NoTimer
  /\ rnow >= pendingPatchTimer
  /\ Commit(patchTimerFired(State))

NetworkSettles ==
  \E i \in 1..Len(net), ok \in BOOLEAN : Commit(settle(State, i, ok))

TickReply ==
  /\ rnow < ReplyStart + MaxReplyTicks * ReplyTickMs
  /\ Commit([State EXCEPT !.rnow = @ + ReplyTickMs])

InitReply == InitReplyState /\ InitMonitor

NextReply ==
  /\ \/ ReasoningFragment
     \/ ToolStart
     \/ ToolResult
     \/ TextFragment
     \/ IdleSignal
     \/ ErrorSignal
     \/ DispatchIdle
     \/ PatchTimerFires
     \/ NetworkSettles
     \/ TickReply
  /\ UNCHANGED mvars

SpecReply == InitReply /\ [][NextReply]_vars

(***************************************************************************)
(* SpecJoin: one reply whose text fragments start or end with line breaks. *)
(***************************************************************************)
NextJoin ==
  /\ \/ ReasoningFragment
     \/ JoinTextFragment
     \/ IdleSignal
     \/ ErrorSignal
     \/ PatchTimerFires
     \/ NetworkSettles
     \/ TickReply
  /\ UNCHANGED mvars

SpecJoin == InitReply /\ [][NextJoin]_vars

(***************************************************************************)
(* Claims about monitor.ts                                                 *)
(***************************************************************************)

\* a message event carrying an id was just handled by a live handler
LiveIdDelivery ==
  /\ lastEvent.kind = "message"
  /\ lastEvent.hasId
  /\ lastEvent.live

\* C1: among the deliveries of one message id to live handlers within the
\* TTL window that its forwarded delivery opens, exactly one is forwarded:
\* a delivery of an id never forwarded before is forwarded, and a delivery
\* within the TTL of the id's latest forward is not forwarded again,
\* whichever connection it arrives on and whether or not the forwarded call
\* is still in flight.
C1_ExactlyOneForwardInWindow ==
  LiveIdDelivery =>
    /\ (lastEvent.seen = "never" => lastEvent.fwd)
    /\ (lastEvent.seen = "inWindow" => ~lastEvent.fwd)

\* C1 witness: a second delivery within the window, on a connection started
\* after a restart, while the first delivery's call is still in flight
C1_Witness ==
  /\ LiveIdDelivery
  /\ lastEvent.seen = "inWindow"
  /\ lastEvent.busy
  /\ ~lastEvent.fwd
  /\ Len(clients) = 2
  /\ now > 0

\* C2: once a second startConnection has begun, the first connection's
\* captured generation is below the live generation for good, and every
\* message event its handler is given afterwards inserts nothing into the
\* cache and forwards nothing.
C2_SupersededHandlerIsNoOp ==
  /\ \A c \in 1..Len(clients) :
       c < Len(clients) => clients[c].session < activeSessionId
  /\ (lastEvent.kind = "message" /\ lastEvent.superseded) =>
       (~lastEvent.fwd /\ lastEvent.cacheSame /\ ~lastEvent.live)

\* C2 witness: the first connection's handler is given a message never seen
\* before, after a second connection was started
C2_Witness ==
  /\ lastEvent.kind = "message"
  /\ lastEvent.superseded
  /\ lastEvent.hasId
  /\ lastEvent.seen = "never"
  /\ ~lastEvent.fwd

\* the clients whose captured generation is the live one
Authoritative == {c \in 1..Len(clients) : clients[c].session = activeSessionId}
\* the clients that were never force-terminated
NotTerminated == {c \in 1..Len(clients) : ~clients[c].stopped}

\* C3: at most one connection is authoritative, at most one created client
\* has not been force-terminated, and such a client is the current one.
C3_AtMostOneConnection ==
  /\ Cardinality(Authoritative) <= 1
  /\ Cardinality(NotTerminated) <= 1
  /\ \A c \in NotTerminated : currentWsClient = c

\* C3 witness: a restart has replaced a running connection
C3_Witness ==
  /\ Len(clients) >= 2
  /\ clients[1].started /\ clients[1].stopped
  /\ NotTerminated = {Len(clients)}
  /\ currentWsClient = Len(clients)

\* C4 (as claimed): a message event delivered through a force-terminated
\* connection is never forwarded.  The code violates it: cleanup() on a
\* cancellation signal or a handshake failure force-stops the client without
\* advancing activeSessionId, so the handler's guard still passes.
C4_TerminatedNeverForwards ==
  (lastEvent.kind = "message" /\ lastEvent.stopped) => ~lastEvent.fwd

\* an insertion brings the cache above its size threshold in this step
InsertionAboveThreshold ==
  /\ \E id \in DOMAIN processedMessages' : id \notin DOMAIN processedMessages
  /\ Cardinality(DOMAIN processedMessages) + 1 > PRUNE_THRESHOLD

\* C11: entries leave the cache only in the prune pass of an insertion that
\* brings it above 200 entries; that pass removes every entry older than the
\* TTL and no entry aged the TTL or less; a live delivery of an identifier
\* whose forward is older than the TTL is forwarded again when the identifier
\* was removed, and is still a duplicate while it is in the cache.
C11_ExpiredEligibleAfterPrune ==
  /\ [][processedMessages' # processedMessages =>
          /\ InsertionAboveThreshold =>
               \A id \in DOMAIN processedMessages' :
                 now - processedMessages'[id] <= DEDUP_TTL_MS
          /\ \A id \in DOMAIN processedMessages :
               id \notin DOMAIN processedMessages' =>
                 /\ InsertionAboveThreshold
                 /\ now - processedMessages[id] > DEDUP_TTL_MS]_vars
  /\ [](\A m \in TrackedIds :
          /\ (lastFwd[m] # Never /\ m \notin DOMAIN processedMessages) =>
               now - lastFwd[m] > DEDUP_TTL_MS
          /\ m \in DOMAIN processedMessages => processedMessages[m] = lastFwd[m])
  /\ []((LiveIdDelivery /\ lastEvent.seen = "expired") =>
          (lastEvent.fwd <=> ~lastEvent.cached))

\* C11 witness: an identifier forwarded more than the TTL ago was removed by
\* a prune pass (the fillers of time 0 are gone with it) and its delivery on
\* a live connection has just been forwarded again
C11_Witness ==
  /\ LiveIdDelivery
  /\ lastEvent.seen = "expired"
  /\ ~lastEvent.cached
  /\ lastEvent.fwd
  /\ DOMAIN processedMessages \subseteq TrackedIds

\* a step of stopFeishuMonitor: the generation advances and no client is
\* created
StopStep == lastEvent'.kind = "stop"

\* C14: stopFeishuMonitor leaves the current-connection reference null and
\* every client created so far retired (its captured generation is below
\* the live one), terminating at most the client that was current; called
\* when there is no current client it terminates nothing; and while no
\* connection is authoritative no message event is forwarded, whichever
\* started client's handler receives it.
C14_StopIsIdempotent ==
  /\ [][StopStep =>
          /\ currentWsClient' = NULL
          /\ \A c \in 1..Len(clients') : clients'[c].session < activeSessionId'
          /\ \A c \in 1..Len(clients) :
               c # currentWsClient => clients'[c] = clients[c]
          /\ currentWsClient # NULL => clients'[currentWsClient].stopped
          /\ currentWsClient = NULL => clients' = clients]_vars
  /\ []((lastEvent.kind = "message" /\ Authoritative = {}) => ~lastEvent.fwd)

\* C14 witness: a running connection was stopped twice, and a message event
\* with a fresh identifier then reached its handler and was not forwarded
C14_Witness ==
  /\ Len(clients) = 1
  /\ clients[1].started /\ clients[1].stopped
  /\ activeSessionId = clients[1].session + 2
  /\ currentWsClient = NULL
  /\ lastEvent.kind = "message" /\ lastEvent.hasId /\ lastEvent.seen = "never"
  /\ ~lastEvent.fwd

\* the promise of the monitorWebSocket call that created client c settles
\* in this step
SettlesNow(c) ==
  /\ clients'[c].promise # "pending"
  /\ c <= Len(clients) => clients[c].promise = "pending"

\* client c is created in this step
CreatedNow(c) == c > Len(clients)

\* C15 (as claimed): whenever the promise of a monitorWebSocket call
\* settles, the client of that call is force-terminated and the
\* current-connection reference is null.  This fails for a call that was
\* superseded: its cleanup() leaves the reference on the newer client.
C15_SettleClearsReference ==
  [][\A c \in 1..Len(clients') :
       SettlesNow(c) => (clients'[c].stopped /\ currentWsClient' = NULL)]_vars

\* C15 (amended): a promise settles at most once; it rejects only in the
\* step that created its client and started the handshake, it resolves in
\* the creating step only when the handshake was never started (signal
\* already set) and otherwise in a later step of its own abort handler; no
\* stopFeishuMonitor and no other call's start settles it; when it settles
\* its client is force-terminated and is not the current one: the
\* reference is cleared when it referred to that client, and is left as it
\* was, with every other client untouched, when the call had been
\* superseded or stopped.
C15_SettlesOnAbortOrFailure ==
  [][\A c \in 1..Len(clients') :
       /\ (c <= Len(clients) /\ clients[c].promise # "pending") =>
            clients'[c].promise = clients[c].promise
       /\ (c <= Len(clients) /\ (StopStep \/ Len(clients') > Len(clients))) =>
            clients'[c].promise = clients[c].promise
       /\ SettlesNow(c) =>
            /\ clients'[c].stopped
            /\ currentWsClient' # c
            /\ clients'[c].promise = "rejected" =>
                 (CreatedNow(c) /\ clients'[c].started)
            /\ (clients'[c].promise = "resolved" /\ CreatedNow(c)) =>
                 ~clients'[c].started
            /\ (CreatedNow(c) \/ currentWsClient = c) => currentWsClient' = NULL
            /\ (~CreatedNow(c) /\ currentWsClient # c) =>
                 /\ clients[c].stopped
                 /\ currentWsClient' = currentWsClient
                 /\ \A d \in 1..Len(clients) : d # c => clients'[d] = clients[d]]_vars

\* C15 witness: the abort signal of a superseded call has resolved its
\* promise while the newer client stays current and running
C15_Witness ==
  /\ Len(clients) = 2
  /\ clients[1].started /\ clients[1].promise = "resolved"
  /\ clients[2].started /\ clients[2].promise = "pending" /\ ~clients[2].stopped
  /\ currentWsClient = 2

\* the teardown of client c fails in this step
TeardownFailsNow(c) ==
  /\ lastEvent'.kind \in {"start", "abort", "stop"}
  /\ c \in lastEvent'.failed

\* C16: a step in which the teardown of a client fails completes as it does
\* when the teardown succeeds: the client counts as terminated and the
\* reference does not point at it; stopFeishuMonitor and the abort handler
\* leave the reference null, and the abort handler resolves its promise; a
\* monitorWebSocket whose teardown of the previous client fails still
\* creates its client, and unless its own start is cancelled or throws that
\* client is current, started and running; a monitorWebSocket that fails to
\* tear down its own client settles its promise as usual.
C16_TeardownFailureAbsorbed ==
  [][\A c \in 1..Len(clients') :
       TeardownFailsNow(c) =>
         /\ clients'[c].stopped
         /\ currentWsClient' # c
         /\ StopStep => currentWsClient' = NULL
         /\ (activeSessionId' = activeSessionId) =>
              (currentWsClient' = NULL /\ clients'[c].promise = "resolved")
         /\ (activeSessionId' # activeSessionId /\ currentWsClient = c) =>
              (StopStep \/ Len(clients') = Len(clients) + 1)
         /\ Len(clients') = Len(clients) + 1 =>
              LET n == Len(clients')
              IN  /\ clients'[n].session = activeSessionId'
                  /\ clients'[n].promise = "pending" =>
                       /\ currentWsClient' = n
                       /\ clients'[n].started /\ ~clients'[n].stopped
                  /\ clients'[n].promise # "pending" =>
                       /\ currentWsClient' = NULL
                       /\ clients'[n].stopped
                       /\ clients'[n].promise = "resolved" <=> ~clients'[n].started]_vars

\* C16 witness: the teardown of the first client failed while a second
\* monitorWebSocket replaced it, and the second client is current and
\* running
C16_Witness ==
  /\ Len(clients) = 2
  /\ lastEvent.kind = "start" /\ lastEvent.failed = {1}
  /\ clients[1].started /\ clients[1].stopped
  /\ clients[2].started /\ ~clients[2].stopped /\ clients[2].promise = "pending"
  /\ currentWsClient = 2

\* C17: a call of the entry point without configuration or credentials
\* throws and changes nothing: the generation, the reference, the cache and
\* the clients are as before (no client is created, none is terminated), no
\* call is left suspended at the probe, and
\* a message event that next reaches the handler of the live connection is
\* forwarded unless it is a duplicate.
C17_ConfigErrorChangesNothing ==
  /\ [][(lastEvent'.kind = "start" /\ lastEvent'.outcome = "threw") =>
          UNCHANGED <<activeSessionId, currentWsClient, processedMessages,
                      clients, probes>>]_vars
  /\ [][(lastEvent.kind = "start" /\ lastEvent.outcome = "threw"
           /\ lastEvent'.kind = "message" /\ lastEvent'.live) =>
          (lastEvent'.fwd <=> ~lastEvent'.cached)]_vars

\* C17 witness: the entry point has just thrown for want of configuration or
\* credentials while a started connection is running and authoritative
C17_Witness ==
  /\ lastEvent.kind = "start" /\ lastEvent.outcome = "threw"
  /\ Len(clients) = 1 /\ currentWsClient = 1 /\ activeSessionId = 1
  /\ clients[1].started /\ ~clients[1].stopped /\ clients[1].promise = "pending"

\* C18: every delivery of a message event without an identifier to a live
\* handler reaches handleFeishuMessage (one more call is pending) and leaves
\* the cache as it was; a read-receipt or membership event changes neither
\* the cache nor the calls of handleFeishuMessage.
C18_NoIdBypassesDedup ==
  /\ [][(lastEvent'.kind = "message" /\ lastEvent'.live /\ ~lastEvent'.hasId) =>
          /\ lastEvent'.fwd
          /\ inflight'[NoId] = inflight[NoId] + 1
          /\ processedMessages' = processedMessages
          /\ lastFwd' = lastFwd]_vars
  /\ [][lastEvent'.kind \in OtherEventTypes =>
          UNCHANGED <<processedMessages, inflight, lastFwd, activeSessionId,
                      currentWsClient, clients>>]_vars

\* C18 witness: an event without an identifier has just been forwarded by
\* the live handler while the cache holds an identifier recorded earlier
C18_Witness ==
  /\ lastEvent.kind = "message" /\ lastEvent.live /\ ~lastEvent.hasId
  /\ lastEvent.fwd /\ inflight[NoId] = 1
  /\ processedMessages # EmptyCache

(***************************************************************************)
(* Claims about reply-dispatcher.ts                                        *)
(***************************************************************************)

\* the calls in flight that create or update the streamed card
CardMutating(call) == call.op \in {"create", "update", "finalize"}
CardCallsInFlight == {i \in 1..Len(net) : CardMutating(net[i])}

\* every network call has settled and no patch is suspended
Quiescent == net = <<>> /\ waiters = 0

\* the chat messages that are cards showing a reply text
BodyCards ==
  {i \in 1..Len(chat) :
     /\ chat[i].type = "card"
     /\ chat[i].card.reply # Undefined
     /\ chat[i].card.reply # ThinkingPlaceholder}

\* C5 (as claimed): at no instant are two create-card or update-card calls
\* of one reply in flight.  The code violates it: patchCard waits only for a
\* creation in flight, never for an update, and doDeliverFinalReply waits
\* for nothing.
C5_SingleCardWriter == Cardinality(CardCallsInFlight) <= 1

\* C7 (as claimed): the standalone delivery fires at most once, and when no
\* network call has failed the reply body is never shown by two chat
\* messages.  The code violates the second part: a final fragment that
\* arrives while the creation is in flight is delivered standalone, and a
\* later finalize writes the body into the created card as well.
C7_NoDuplicateDelivery ==
  /\ hist.standalones <= 1
  /\ hist.failures = 0 => Cardinality(BodyCards) <= 1

\* the stream has an idle signal after its last text fragment
EndedWithIdle ==
  \E j \in 1..Len(stream) :
    /\ stream[j] = "idle"
    /\ \A k \in (j + 1)..Len(stream) : stream[k] \notin {"block", "final"}

\* C8 (as claimed): when the stream has ended with the idle signal, every
\* network call has settled and none has failed, a chat message shows the
\* full accumulated text as its body.  The code violates it: text
\* accumulated after the standalone delivery is never sent.
C8_AllTextDelivered ==
  (EndedWithIdle /\ Quiescent /\ hist.failures = 0 /\ ~IsBlank(accumulatedText)) =>
    \E i \in BodyCards : chat[i].card.reply = ReplyMarkdown(accumulatedText, FALSE)

\* C9 (as claimed): for the stream of one reasoning fragment and one final
\* text fragment, once every call has settled without failure, one card was
\* created and one update carried the final body, and the only message of
\* the chat shows the final text under a collapsed panel that counts no
\* tool.  The code violates it when the final fragment arrives while the
\* creation is in flight.
C9_ReasoningThenFinal ==
  (stream = <<"reasoning", "final">> /\ Quiescent /\ hist.failures = 0) =>
    /\ hist.creates + hist.standalones = 1
    /\ hist.updates + hist.finals = 1
    /\ Len(chat) = 1
    /\ chat[1].card.reply = ReplyMarkdown(accumulatedText, FALSE)
    /\ chat[1].card.panel # Undefined
    /\ ~chat[1].card.panel.expanded
    /\ chat[1].card.panel.title = [tools |-> 0, failed |-> 0]

\* C10 (as claimed): no non-final create-card or update-card call carries a
\* card built from accumulated text that contains a markdown table.  The
\* code violates it: the table check of patchCard runs before the wait for
\* a creation in flight, and the card is built after it.
C10_NoIntermediateTablePatch ==
  \A i \in 1..Len(net) :
    (net[i].op \in {"create", "update"} /\ ~net[i].final) =>
      ~hasMarkdownTable(net[i].from)

\* the number of create-card and update-card calls patchCard has issued
PatchAttempts == hist.creates + hist.updates

\* C12 (as claimed): successive patch attempts of the immediate or the
\* debounced patch path are at least patchIntervalMs apart; in particular
\* no step but markDispatchIdle, which happens at one instant, issues two.
\* The code violates it: the patches suspended on the creation are all sent
\* the moment the creation resolves.
C12_MinimumPatchSpacing ==
  [][(PatchAttempts' > PatchAttempts /\
        ~(stream' # stream /\ stream'[Len(stream')] = "dispatchIdle")) =>
       PatchAttempts' = PatchAttempts + 1]_vars

\* the plain-text chunks the chat shows, in the order they arrived
SentChunks ==
  LET msgs == SelectSeq(chat, LAMBDA msg : msg.type = "text")
  IN  [i \in 1..Len(msgs) |-> msgs[i].text]

\* the calls in flight of each kind of the standalone delivery
StandaloneCalls == {i \in 1..Len(net) : net[i].op = "standalone"}
TextCalls == {i \in 1..Len(net) : net[i].op = "text"}

\* the chunks of the plain-text fallback for the first n characters of the
\* accumulated text
FallbackChunks(n) ==
  chunkTextWithMode(convertMarkdownTables(SubSeq(accumulatedText, 1, n)),
                    textChunkLimit)

\* the chat's standalone cards (cards without a thinking panel)
StandaloneCards ==
  {i \in 1..Len(chat) : chat[i].type = "card" /\ chat[i].card.panel = Undefined}

\* C13: the standalone delivery sends one rich card with the full text it
\* was given; plain-text chunks are sent only after that card send failed;
\* they are the chunks of the converted text, sent in order and one at a
\* time, the next only when the one before succeeded; a failed chunk send
\* ends the delivery: no chunk is sent after it or again, and the error
\* reaches the caller.
C13_StandaloneDegradesInOrder ==
  /\ [](\A i \in StandaloneCalls :
          /\ hist.texts = 0
          /\ \E n \in 1..Len(accumulatedText) :
               /\ net[i].text = SubSeq(accumulatedText, 1, n)
               /\ net[i].card = buildUnifiedCard(Undefined, FALSE, Undefined,
                                                 ReplyMarkdown(net[i].text, FALSE)))
  /\ [](hist.texts > 0 =>
          /\ hist.standalones = 1
          /\ StandaloneCards = {}
          /\ Cardinality(TextCalls) <= 1
          /\ hist.surfaced <= 1
          /\ hist.texts = Len(SentChunks) + Cardinality(TextCalls) + hist.surfaced
          /\ \E n \in 1..Len(accumulatedText) :
               LET chunks == FallbackChunks(n)
               IN  /\ hist.texts <= Len(chunks)
                   /\ SentChunks = SubSeq(chunks, 1, Len(SentChunks))
                   /\ \A i \in TextCalls :
                        /\ hist.surfaced = 0
                        /\ net[i].text = chunks[Len(SentChunks) + 1]
                        /\ net[i].rest = SubSeq(chunks, Len(SentChunks) + 2, Len(chunks))
                   /\ (TextCalls = {} /\ hist.surfaced = 0) => SentChunks = chunks)
  /\ [][hist'.texts > hist.texts =>
          /\ hist'.texts = hist.texts + 1
          /\ hist'.failures = hist.failures + 1 <=> hist.texts = 0
          /\ hist.texts > 0 => Len(SentChunks') = Len(SentChunks) + 1]_vars
  /\ [][hist.surfaced > 0 => hist'.texts = hist.texts]_vars

\* C13 witness: the card send of a two-chunk text failed, then its first
\* chunk send failed: the second chunk was never sent
C13_Witness ==
  /\ accumulatedText = TextTable
  /\ Len(FallbackChunks(Len(accumulatedText))) = 2
  /\ hist.standalones = 1
  /\ hist.texts = 1
  /\ hist.surfaced = 1
  /\ SentChunks = <<>>
  /\ net = <<>>

\* the join rule: one newline goes between the text accumulated so far and
\* the next fragment exactly when the accumulated text is non-empty and does
\* not end with a newline and the fragment does not start with one
JoinRule(acc, text) ==
  IF acc # <<>> /\ acc[Len(acc)] # NL /\ text # <<>> /\ text[1] # NL
    THEN acc \o <<NL>> \o text
    ELSE acc \o text

RECURSIVE JoinAll(_)
\* the fragments of a sequence joined in order by the join rule
JoinAll(texts) ==
  IF texts = <<>> THEN <<>>
  ELSE JoinRule(JoinAll(SubSeq(texts, 1, Len(texts) - 1)), texts[Len(texts)])

\* the fragments received that are not blank
IsNonBlank(text) == ~IsBlank(text)

\* C19 (as claimed): accumulatedText is the join, in arrival order, of all
\* text fragments received so far.  The code violates it: a fragment that is
\* blank after trimming is dropped.
C19_AccumulatesAllFragments ==
  accumulatedText = JoinAll(hist.received)

\* C19 (amended): accumulatedText is the join, in arrival order, of the
\* fragments received so far that are not blank; a blank fragment changes
\* nothing of the reply but the record of its arrival.
C19_AccumulatesNonBlankFragments ==
  /\ [](accumulatedText = JoinAll(SelectSeq(hist.received, IsNonBlank)))
  /\ [][(Len(hist'.received) > Len(hist.received)
           /\ IsBlank(hist'.received[Len(hist'.received)])) =>
          UNCHANGED <<cardMessageId, accumulatedText, lastPatchTime,
                      pendingPatchTimer, streamingFailed, cardCreationPromise,
                      thinkingText, activeTools, completedTools, thinkingStopped,
                      hasThinkingContent, standaloneDelivered, waiters, net,
                      chat, rnow>>]_vars

\* C19 witness: three fragments arrived; a newline was inserted before the
\* second, none before the third (the text ended with one and the fragment
\* started with one)
C19_Witness ==
  /\ hist.received = <<TextX, TextTrail, TextLead>>
  /\ accumulatedText = <<"X", NL, "Z", NL, NL, "Y">>

\* a thinking update arrives while a timer is pending, thinking has not
\* stopped and the last patch is too recent for an immediate one: it
\* requests a scheduled patch
RequestWhilePending ==
  /\ Len(stream') = Len(stream) + 1
  /\ stream'[Len(stream')] \in {"reasoning", "toolStart", "toolResult"}
  /\ pendingPatchTimer # NoTimer
  /\ ~thinkingStopped
  /\ rnow - lastPatchTime < DEFAULT_THINKING_UPDATE_INTERVAL_MS

\* the debounce timer fires in this step
TimerFires == hist'.fired = hist.fired + 1

\* C20: at most one debounce timer is live, and it is the one the pending
\* slot holds; a request for a scheduled patch while a timer is pending
\* leaves the timer, its deadline and the network alone; when the timer
\* fires the slot is cleared and patchCard(false) runs once (it sends one
\* non-final create or update, or waits for the creation in flight), unless
\* streamingFailed is set, and then nothing is sent.
C20_SinglePendingTimer ==
  /\ [](/\ hist.timers \in {0, 1}
        /\ hist.timers = 1 <=> pendingPatchTimer # NoTimer)
  /\ [][RequestWhilePending =>
          /\ pendingPatchTimer' = pendingPatchTimer
          /\ hist'.timers = hist.timers
          /\ net' = net /\ waiters' = waiters
          /\ PatchAttempts' = PatchAttempts]_vars
  /\ [][TimerFires =>
          /\ pendingPatchTimer # NoTimer /\ rnow >= pendingPatchTimer
          /\ pendingPatchTimer' = NoTimer
          /\ hist'.timers = 0
          /\ IF streamingFailed
               THEN net' = net /\ waiters' = waiters
                    /\ PatchAttempts' = PatchAttempts
             ELSE IF cardCreationPromise
               THEN net' = net /\ waiters' = waiters + 1
                    /\ PatchAttempts' = PatchAttempts
             ELSE /\ Len(net') = Len(net) + 1
                  /\ net'[Len(net')].op \in {"create", "update"}
                  /\ ~net'[Len(net')].final
                  /\ waiters' = waiters
                  /\ PatchAttempts' = PatchAttempts + 1]_vars

\* C20 witness: after the card was created, a second thinking update set
\* the timer, a third arrived while it was pending, and the timer has fired
\* and sent its non-final update
C20_Witness ==
  /\ stream = <<"reasoning", "reasoning", "reasoning">>
  /\ cardMessageId # NULL
  /\ pendingPatchTimer = NoTimer /\ hist.timers = 0
  /\ hist.creates = 1 /\ hist.updates = 1
  /\ rnow - lastPatchTime < DEFAULT_THINKING_UPDATE_INTERVAL_MS
  /\ Len(net) = 1 /\ net[1].op = "update" /\ ~net[1].final

\* a text fragment that is not blank has arrived
NonBlankReceived ==
  \E i \in 1..Len(hist.received) : ~IsBlank(hist.received[i])

\* C21 (as claimed): once any text fragment has arrived, thinkingStopped is
\* set and no debounce timer is pending; and thinkingStopped implies that no
\* timer is pending.  The code violates the first part: a fragment that is
\* blank after trimming returns before it stops thinking.
C21_StoppedFromFirstFragment ==
  /\ hist.received # <<>> =>
       (thinkingStopped /\ pendingPatchTimer = NoTimer /\ hist.timers = 0)
  /\ thinkingStopped => (pendingPatchTimer = NoTimer /\ hist.timers = 0)

\* C21 (amended): once a text fragment that is not blank has arrived,
\* thinkingStopped is set and no debounce timer is live; thinkingStopped
\* implies that no timer is live; and once thinkingStopped is set it stays
\* set and no timer is set again.
C21_StoppedFromFirstNonBlankFragment ==
  /\ [](NonBlankReceived =>
          (thinkingStopped /\ pendingPatchTimer = NoTimer /\ hist.timers = 0))
  /\ [](thinkingStopped => (pendingPatchTimer = NoTimer /\ hist.timers = 0))
  /\ [][thinkingStopped =>
          /\ thinkingStopped'
          /\ pendingPatchTimer' = NoTimer
          /\ hist'.timers = 0]_vars

\* C21 witness: the card was created, a second reasoning fragment set the
\* debounce timer, and the first text fragment arrived before it fired: the
\* timer is gone and no update was sent
C21_Witness ==
  /\ stream = <<"reasoning", "reasoning", "block">>
  /\ cardMessageId # NULL /\ ~streamingFailed
  /\ waiters = 0 /\ net = <<>>
  /\ hist.creates = 1 /\ hist.updates = 0
  /\ thinkingStopped /\ pendingPatchTimer = NoTimer /\ hist.timers = 0

\* the step is a reasoning, tool-start or tool-result callback
ThinkingEventStep ==
  /\ Len(stream') = Len(stream) + 1
  /\ stream'[Len(stream')] \in {"reasoning", "toolStart", "toolResult"}

\* C22 (as claimed): once thinkingStopped is set, thinkingText does not
\* change, the thinking section that later cards render does not change,
\* and a reasoning or tool callback sends nothing, suspends no patch and
\* sets no timer.  The code violates it: onReasoningStream stores the
\* snapshot, and onAgentEvent updates the tools, before triggerThinkingUpdate
\* looks at the flag.
C22_NoThinkingUpdateAfterStop ==
  [][thinkingStopped =>
       /\ thinkingText' = thinkingText
       /\ buildThinkingSection(thinkingText', activeTools', completedTools',
                               ThinkingMaxLen) =
            buildThinkingSection(thinkingText, activeTools, completedTools,
                                 ThinkingMaxLen)
       /\ ThinkingEventStep =>
            (net' = net /\ waiters' = waiters /\ hist'.timers = hist.timers)]_vars

\* a call of the given kind fails in this step
FailsNow(op) ==
  /\ hist'.failures = hist.failures + 1
  /\ \E i \in 1..Len(net) : net[i].op = op /\ SubSeq(net', 1, Len(net) - 1) = RemoveAt(net, i)

\* C23: a failing update call of patchCard leaves streamingFailed false and
\* cardMessageId, lastPatchTime and the card in the chat as they were;
\* streamingFailed becomes true only in a step in which a create call fails;
\* and while a card exists and thinking is live, a thinking update that is
\* due for an immediate patch sends an update of that card with the thinking
\* section as it then is.
C23_FailedUpdateIsTransient ==
  /\ [][FailsNow("update") =>
          /\ ~streamingFailed /\ ~streamingFailed'
          /\ cardMessageId # NULL /\ cardMessageId' = cardMessageId
          /\ lastPatchTime' = lastPatchTime
          /\ chat' = chat]_vars
  /\ [][(streamingFailed' /\ ~streamingFailed) =>
          (FailsNow("create") /\ cardMessageId = NULL)]_vars
  /\ [][(ThinkingEventStep /\ ~thinkingStopped /\ cardMessageId # NULL
           /\ rnow - lastPatchTime >= DEFAULT_THINKING_UPDATE_INTERVAL_MS) =>
          /\ Len(net') = Len(net) + 1
          /\ LET call == net'[Len(net')]
                 md == buildThinkingSection(thinkingText', activeTools',
                                            completedTools', ThinkingMaxLen)
             IN  /\ call.op = "update" /\ ~call.final
                 /\ call.id = cardMessageId
                 /\ call.card.panel.expanded
                 /\ call.card.panel.content =
                      (IF md # Undefined THEN md ELSE ThinkingPlaceholder)]_vars

\* C23 witness: the card exists, one update of it has failed, and a second
\* update is in flight
C23_Witness ==
  /\ cardMessageId # NULL /\ ~streamingFailed
  /\ hist.creates = 1 /\ hist.finals = 0 /\ hist.standalones = 0
  /\ hist.failures = 1 /\ hist.updates = 2
  /\ Len(net) = 1 /\ net[1].op = "update"

\* C24 (as claimed): no patchCard invocation rejects.  The code violates
\* it: an invocation suspended at "await cardCreationPromise" is outside the
\* try block, so when the creation fails its promise rejects.
C24_NoPatchRejects ==
  hist.rejected = 0

\* C25: once doDeliverFinalReply has issued its update of the card, no
\* create-card or update-card call of patchCard is issued any more, by a
\* thinking update, the timer, a suspended patch or markDispatchIdle: from
\* then on thinking is stopped, no timer is live, no creation is in flight
\* and no patch is suspended.
C25_NoPatchAfterFinalize ==
  /\ [][hist.finals > 0 =>
          (hist'.creates = hist.creates /\ hist'.updates = hist.updates)]_vars
  /\ [](hist.finals > 0 =>
          /\ cardMessageId # NULL /\ thinkingStopped
          /\ hist.timers = 0 /\ pendingPatchTimer = NoTimer
          /\ ~cardCreationPromise /\ waiters = 0)
  /\ [][hist'.finals > hist.finals =>
          /\ hist'.finals = hist.finals + 1
          /\ LET call == net'[Len(net')]
             IN  /\ call.op = "finalize" /\ call.id = cardMessageId
                 /\ call.card.reply = ReplyMarkdown(accumulatedText', FALSE)
                 /\ call.card.panel # Undefined => ~call.card.panel.expanded]_vars

\* C25 witness: the card was created from a reasoning fragment, the final
\* fragment issued the finalize update, and markDispatchIdle ran after it
\* without sending a patch
C25_Witness ==
  /\ stream = <<"reasoning", "final", "dispatchIdle">>
  /\ hist.creates = 1 /\ hist.finals = 1 /\ hist.updates = 0
  /\ hist.standalones = 0

\* C26: patchCard issues at most one create-card call for a reply;
\* cardMessageId, once set, keeps its value; and streamingFailed and a set
\* cardMessageId never hold together.
C26_SingleCreation ==
  /\ [](hist.creates <= 1)
  /\ [](Cardinality({i \in 1..Len(net) : net[i].op = "create"}) <= 1)
  /\ [][cardMessageId # NULL => cardMessageId' = cardMessageId]_vars
  /\ [](~(streamingFailed /\ cardMessageId # NULL))

\* C26 witness: two thinking updates arrived while the creation was in
\* flight; the creation has resolved, the card exists, and the two
\* suspended patches have sent updates and no second create
C26_Witness ==
  /\ stream = <<"reasoning", "toolStart", "toolResult">>
  /\ cardMessageId # NULL /\ ~streamingFailed
  /\ hist.creates = 1 /\ hist.updates = 2
  /\ lastPatchTime = rnow
  /\ Len(net) = 2


\* the promise of the existing client c settles in this step although a
\* newer monitorWebSocket call has replaced c as the current client
SupersededSettlesNow(c) ==
  /\ c < Len(clients)
  /\ SettlesNow(c)

\* C27: when the abort signal or the handshake failure of a superseded
\* monitorWebSocket call settles its promise, no teardown runs: no client
\* is force-terminated in that step, the current-connection reference and
\* the session generation stay as they were, and every other client
\* forwards exactly the messages it forwarded before; a promise rejected by
\* a handshake failure always belongs to the client created in that step,
\* so only an abort signal can reach a superseded call.
C27_SupersededCallLeavesNewest ==
  [][\A c \in 1..Len(clients) :
       /\ ~(SettlesNow(c) /\ clients'[c].promise = "rejected")
       /\ SupersededSettlesNow(c) =>
            /\ lastEvent'.kind = "abort"
            /\ lastEvent'.failed = {}
            /\ currentWsClient # c
            /\ currentWsClient' = currentWsClient
            /\ activeSessionId' = activeSessionId
            /\ \A d \in 1..Len(clients) :
                 /\ clients'[d].stopped = clients[d].stopped
                 /\ d # c => clients'[d] = clients[d]
                 /\ \A m \in EventIds :
                      (clients[d].started /\ forwards(d, m))' =
                        (clients[d].started /\ forwards(d, m))]_vars

\* C27 witness: the abort handler of the first call has just run while the
\* client of the second call is current, running and authoritative
C27_Witness ==
  /\ lastEvent.kind = "abort"
  /\ Len(clients) = 2
  /\ clients[1].started /\ clients[1].promise = "resolved"
  /\ currentWsClient = 2
  /\ clients[2].started /\ ~clients[2].stopped
  /\ clients[2].promise = "pending"
  /\ isLive(2)

\* the text received so far has been handed to the finalize path: a final
\* fragment or the idle signal came with or after the last text fragment
TextFinalized ==
  \E j \in 1..Len(stream) :
    /\ stream[j] \in {"final", "idle"}
    /\ \A k \in (j + 1)..Len(stream) : stream[k] \notin {"block", "final"}

\* once the creation has failed the flag stays set, no card exists and no
\* step issues a create-card or update-card call
C6_NoCardCallAfterFailure ==
  /\ [][FailsNow("create") => streamingFailed']_vars
  /\ [][streamingFailed =>
          /\ streamingFailed'
          /\ cardMessageId' = NULL
          /\ hist'.creates = hist.creates
          /\ hist'.updates = hist.updates
          /\ hist'.finals = hist.finals]_vars

\* C6 (as claimed): a failing creation call sets streamingFailed; once set
\* it stays set, no card exists and no create-card or update-card call is
\* issued by any step; and the reply text is delivered through the
\* standalone path: when the text received has been handed to the finalize
\* path, every call has settled and none but the creation has failed, a
\* standalone card of the chat shows the full accumulated text.  The code
\* violates the last part: the standalone delivery runs once, and text that
\* is accumulated after it is never sent.
C6_FailedCreationIsFinal ==
  /\ C6_NoCardCallAfterFailure
  /\ []((/\ streamingFailed /\ TextFinalized /\ Quiescent
         /\ hist.failures = 1 /\ ~IsBlank(accumulatedText)) =>
          \E i \in StandaloneCards :
            chat[i].card.reply = ReplyMarkdown(accumulatedText, FALSE))
====
